---------------------------- MODULE Spec2Model ----------------------------
(***************************************************************************)
(* A model of the memory analyzer (src/unnamed/part_002): the two platform *)
(* readers (Linux pseudo-files, Darwin external utilities), their parsing  *)
(* helpers and the polling loop of main.                                   *)
(*                                                                         *)
(* Text is a sequence of one-character strings.  A uint64 is a sequence of *)
(* four 16-bit limbs, least significant first, so that the arithmetic of   *)
(* the readers keeps its 64-bit width.                                     *)
(***************************************************************************)
EXTENDS Integers, Sequences, FiniteSets, TLC

VARIABLES
    fn,         \* which operation a single-call specification applies
    arg,        \* the operation's input (files, command outputs, token)
    ret,        \* the operation's result
    fpc,        \* "call" before the operation ran, "done" after
    pc,         \* main: where the program is
    goos,       \* main: runtime.GOOS
    cwd,        \* main: the working directory of the process
    reader,     \* main: the reader variant selected
    sigChan,    \* main: signals buffered in sigChan (capacity 1)
    tickC,      \* main: ticks buffered in ticker.C (capacity 1)
    sysInfo,    \* main: sysInfo of the current poll
    err,        \* main: the error the last reader call returned
    pids,       \* main: the PIDs enumerated in the current poll
    idx,        \* main: position of the range loop over pids
    processes,  \* main: the ProcessInfo collected in the current poll
    rendered,   \* what DisplayDashboard was handed in the current tick
    printed,    \* the last message written to standard output
    exitCode,   \* the exit status of the process, -1 while it runs
    readLog,    \* history: the error of each ReadProcessMemory of the current poll
    nTicks,     \* history: ticks taken from ticker.C
    nDash,      \* history: dashboards rendered
    nFail       \* history: polls abandoned on an error

(***************************************************************************)
(* Bounds of the model.                                                    *)
(***************************************************************************)
\* meminfo / page-statistics figures range over 0..MaxKb, plus fixed large ones
MaxKb == 1

(***************************************************************************)
(* uint64 arithmetic on 16-bit limbs.                                      *)
(***************************************************************************)
Base == 256 * 256

Zero64 == <<0, 0, 0, 0>>

\* the uint64 whose value is the small natural n (n < Base)
Small64(n) == <<n, 0, 0, 0>>

RECURSIVE MulC(_, _, _, _)
\* x * k + c over all limbs of x, one limb longer than x (k, c small)
MulC(x, k, i, c) ==
    IF i > Len(x) THEN <<c>>
    ELSE LET p == x[i] * k + c
         IN  <<p % Base>> \o MulC(x, k, i + 1, p \div Base)

RECURSIVE AddC(_, _, _, _)
\* x + y + c for limb sequences of the same length, one limb longer
AddC(x, y, i, c) ==
    IF i > Len(x) THEN <<c>>
    ELSE LET s == x[i] + y[i] + c
         IN  <<s % Base>> \o AddC(x, y, i + 1, s \div Base)

RECURSIVE LeFrom(_, _, _)
\* x <= y for limb sequences of the same length, compared from limb i down
LeFrom(x, y, i) ==
    IF i = 0 THEN TRUE
    ELSE IF x[i] < y[i] THEN TRUE
    ELSE IF x[i] > y[i] THEN FALSE
    ELSE LeFrom(x, y, i - 1)

Le(x, y) == LeFrom(x, y, Len(x))

\* pad a limb sequence with zero limbs up to n limbs
Pad(x, n) == IF Len(x) >= n THEN x ELSE x \o [i \in 1..(n - Len(x)) |-> 0]

\* Go's uint64 multiplication and addition: the low 64 bits
Mul64(x, k) == SubSeq(MulC(x, k, 1, 0), 1, 4)
Add64(x, y) == SubSeq(AddC(x, y, 1, 0), 1, 4)

\* the exact (unbounded) product and sum, six limbs
MulExact(x, k) == Pad(MulC(Pad(x, 5), k, 1, 0), 6)
AddExact(x, y) == SubSeq(AddC(Pad(x, 6), Pad(y, 6), 1, 0), 1, 6)

(***************************************************************************)
(* Text helpers: package strings and strconv.                              *)
(***************************************************************************)
DigitChars == <<"0", "1", "2", "3", "4", "5", "6", "7", "8", "9">>

IsAsciiDigit(c) == \E d \in 1..10 : DigitChars[d] = c

DigitVal(c) == (CHOOSE d \in 1..10 : DigitChars[d] = c) - 1

WhiteSpace == {" ", "\t", "\n"}

RECURSIVE TrimSpace(_)
\* strings.TrimSpace
TrimSpace(s) ==
    IF s = <<>> THEN s
    ELSE IF Head(s) \in WhiteSpace THEN TrimSpace(Tail(s))
    ELSE IF s[Len(s)] \in WhiteSpace THEN TrimSpace(SubSeq(s, 1, Len(s) - 1))
    ELSE s

\* strings.HasPrefix, strings.HasSuffix, strings.TrimSuffix, strings.TrimPrefix
HasPrefix(s, p) == Len(s) >= Len(p) /\ SubSeq(s, 1, Len(p)) = p
HasSuffix(s, p) == Len(s) >= Len(p) /\ SubSeq(s, Len(s) - Len(p) + 1, Len(s)) = p
TrimSuffix(s, p) == IF HasSuffix(s, p) THEN SubSeq(s, 1, Len(s) - Len(p)) ELSE s
TrimPrefix(s, p) == IF HasPrefix(s, p) THEN SubSeq(s, Len(p) + 1, Len(s)) ELSE s

\* index of the first c in s, 0 when there is none
IndexOf(s, c) ==
    IF \E i \in 1..Len(s) : s[i] = c
    THEN CHOOSE i \in 1..Len(s) : s[i] = c /\ \A j \in 1..(i - 1) : s[j] # c
    ELSE 0

\* strings.SplitN(s, ":", 2)
SplitN2(s) ==
    LET i == IndexOf(s, ":")
    IN  IF i = 0 THEN <<s>>
        ELSE <<SubSeq(s, 1, i - 1), SubSeq(s, i + 1, Len(s))>>

RECURSIVE FieldsFrom(_, _)
\* strings.Fields: cur is the field being read
FieldsFrom(s, cur) ==
    IF s = <<>> THEN (IF cur = <<>> THEN <<>> ELSE <<cur>>)
    ELSE IF Head(s) \in WhiteSpace
         THEN (IF cur = <<>> THEN <<>> ELSE <<cur>>) \o FieldsFrom(Tail(s), <<>>)
         ELSE FieldsFrom(Tail(s), Append(cur, Head(s)))

Fields(s) == FieldsFrom(s, <<>>)

RECURSIVE ParseDigits(_, _)
\* the digits of s folded into acc (five limbs: wide enough to see an overflow)
ParseDigits(s, acc) ==
    IF s = <<>> THEN acc
    ELSE ParseDigits(Tail(s), SubSeq(MulC(acc, 10, 1, DigitVal(Head(s))), 1, 5))

\* strconv.ParseUint(s, 10, 64): [val, err]
ParseUint(s) ==
    IF s = <<>> \/ \E i \in 1..Len(s) : ~IsAsciiDigit(s[i])
    THEN [val |-> Zero64, err |-> "syntax"]
    ELSE IF Len(s) > 22
    THEN [val |-> Zero64, err |-> "range"]
    ELSE LET w == ParseDigits(s, <<0, 0, 0, 0, 0>>)
         IN  IF w[5] # 0 THEN [val |-> Zero64, err |-> "range"]
             ELSE [val |-> SubSeq(w, 1, 4), err |-> "nil"]

RECURSIVE Itoa(_)
\* strconv.Itoa for n >= 0
Itoa(n) ==
    IF n < 10 THEN <<DigitChars[n + 1]>>
    ELSE Itoa(n \div 10) \o <<DigitChars[(n % 10) + 1]>>

(***************************************************************************)
(* Linux reader: /proc/meminfo.                                            *)
(***************************************************************************)
KMemTotal     == <<"M", "e", "m", "T", "o", "t", "a", "l">>
KMemFree      == <<"M", "e", "m", "F", "r", "e", "e">>
KMemAvailable == <<"M", "e", "m", "A", "v", "a", "i", "l", "a", "b", "l", "e">>
KBuffers      == <<"B", "u", "f", "f", "e", "r", "s">>
KCached       == <<"C", "a", "c", "h", "e", "d">>
KSwapTotal    == <<"S", "w", "a", "p", "T", "o", "t", "a", "l">>
KSwapFree     == <<"S", "w", "a", "p", "F", "r", "e", "e">>

\* the map with no key
EmptyMap == [k \in {} |-> Zero64]

\* v, exists := m[k]: exists, and v (the zero value when k is missing)
Has(m, k) == k \in DOMAIN m
Get(m, k) == IF k \in DOMAIN m THEN m[k] ELSE Zero64

RECURSIVE parseMemInfoLines(_, _)
\* the scan loop of parseMemInfo: stats after the lines
parseMemInfoLines(lines, stats) ==
    IF lines = <<>> THEN stats
    ELSE LET line  == TrimSpace(Head(lines))
             parts == SplitN2(line)
             rest  == Tail(lines)
         IN  IF line = <<>> THEN parseMemInfoLines(rest, stats)
             ELSE IF Len(parts) # 2 THEN parseMemInfoLines(rest, stats)
             ELSE LET key         == TrimSpace(parts[1])
                      value       == TrimSpace(parts[2])
                      valueFiels  == Fields(value)
                  IN  IF Len(valueFiels) = 0 THEN parseMemInfoLines(rest, stats)
                      ELSE LET p == ParseUint(valueFiels[1])
                           IN  IF p.err # "nil" THEN parseMemInfoLines(rest, stats)
                               ELSE parseMemInfoLines(rest, (key :> p.val) @@ stats)

\* parseMemInfo(file): [stats, err]; scanErr is the scanner's read error
parseMemInfo(file) ==
    LET stats == parseMemInfoLines(file.lines, EmptyMap)
    IN  IF file.scanErr THEN [stats |-> EmptyMap, err |-> "read"]
        ELSE IF DOMAIN stats = {} THEN [stats |-> EmptyMap, err |-> "nodata"]
        ELSE [stats |-> stats, err |-> "nil"]

SystemMemoryInfo(total, free, available, swapTotal, swapFree) ==
    [TotalMemory |-> total, FreeMemory |-> free, AvailableMemory |-> available,
     SwapTotal |-> swapTotal, SwapFree |-> swapFree]

ZeroInfo == SystemMemoryInfo(Zero64, Zero64, Zero64, Zero64, Zero64)

\* a faulty variant of the fallback: Cached is left out of the sum
LinuxAvailableFallbackNoCached(memStats, freeMemory) ==
    IF Has(memStats, KBuffers)
    THEN Add64(freeMemory, Mul64(Get(memStats, KBuffers), 1024)) ELSE freeMemory

\* the fallback of LinuxMemoryReader.ReadSystemMemory for a missing MemAvailable
LinuxAvailableFallback(memStats, freeMemory) ==
    LET a0 == freeMemory
        a1 == IF Has(memStats, KBuffers)
              THEN Add64(a0, Mul64(Get(memStats, KBuffers), 1024)) ELSE a0
        a2 == IF Has(memStats, KCached)
              THEN Add64(a1, Mul64(Get(memStats, KCached), 1024)) ELSE a1
    IN  a2

\* the MemTotal, MemFree and MemAvailable part of ReadSystemMemory: [info, err]
LinuxMemFields(memStats) ==
    IF ~Has(memStats, KMemTotal) THEN [info |-> ZeroInfo, err |-> "MemTotal"]
    ELSE IF ~Has(memStats, KMemFree) THEN [info |-> ZeroInfo, err |-> "MemFree"]
    ELSE LET total == Mul64(Get(memStats, KMemTotal), 1024)
             free  == Mul64(Get(memStats, KMemFree), 1024)
             available ==
                 IF Has(memStats, KMemAvailable)
                 THEN Mul64(Get(memStats, KMemAvailable), 1024)
                 ELSE LinuxAvailableFallback(memStats, free)
         IN  [info |-> SystemMemoryInfo(total, free, available, Zero64, Zero64),
              err |-> "nil"]

\* a faulty variant of the swap part: a missing SwapFree counts 0, no error
LinuxSwapFieldsDefaultFree(memStats, info) ==
    IF ~Has(memStats, KSwapTotal) THEN [info |-> info, err |-> "SwapTotal"]
    ELSE [info |-> [info EXCEPT !.SwapTotal = Mul64(Get(memStats, KSwapTotal), 1024),
                                !.SwapFree = Mul64(Get(memStats, KSwapFree), 1024)],
          err |-> "nil"]

\* the SwapTotal and SwapFree part of ReadSystemMemory, info filled so far
LinuxSwapFields(memStats, info) ==
    IF ~Has(memStats, KSwapTotal) THEN [info |-> info, err |-> "SwapTotal"]
    ELSE LET info1 == [info EXCEPT !.SwapTotal = Mul64(Get(memStats, KSwapTotal), 1024)]
         IN  IF ~Has(memStats, KSwapFree) THEN [info |-> info1, err |-> "SwapFree"]
             ELSE [info |-> [info1 EXCEPT !.SwapFree =
                                 Mul64(Get(memStats, KSwapFree), 1024)],
                   err |-> "nil"]

\* LinuxMemoryReader.ReadSystemMemory on the file /proc/meminfo: [info, err]
LinuxReadSystemMemory(file) ==
    IF file.openErr THEN [info |-> ZeroInfo, err |-> "open"]
    ELSE LET parsed == parseMemInfo(file)
         IN  IF parsed.err # "nil" THEN [info |-> ZeroInfo, err |-> parsed.err]
             ELSE LET mem == LinuxMemFields(parsed.stats)
                  IN  IF mem.err # "nil" THEN mem
                      ELSE LinuxSwapFields(parsed.stats, mem.info)

(***************************************************************************)
(* The meminfo files the Linux reader is run on.                           *)
(***************************************************************************)
\* 2^54 and 2^54 + 1 in decimal: the smallest kB figures whose byte count wraps
Str2p54 == <<"1", "8", "0", "1", "4", "3", "9", "8", "5", "0", "9", "4", "8", "1", "9", "8", "4">>
Str2p54p1 == <<"1", "8", "0", "1", "4", "3", "9", "8", "5", "0", "9", "4", "8", "1", "9", "8", "5">>

SmallStrs == {Itoa(n) : n \in 0..MaxKb}

\* "absent" stands for a key with no line in the file
Absent == <<"-">>

\* a line "Key:   value kB"
MemInfoLine(key, valueStr) ==
    key \o <<":", " ", " ">> \o valueStr \o <<" ", "k", "B">>

\* lines the scan skips: blank, no colon, no value, a value that is no number
JunkLines ==
    << <<" ">>, <<"j", "u", "n", "k">>, <<"D", "i", "r", "t", "y", ":">>,
       <<"M", "e", "m", "T", "o", "t", "a", "l", ":", " ", "x", " ", "k", "B">> >>

RECURSIVE LinesOf(_, _)
\* the lines of the keys of ks (a sequence of <<key, value string>>) that are present
LinesOf(ks, i) ==
    IF i > Len(ks) THEN <<>>
    ELSE (IF ks[i][2] = Absent THEN <<>> ELSE <<MemInfoLine(ks[i][1], ks[i][2])>>)
         \o LinesOf(ks, i + 1)

MemInfoFile(junk, mt, mf, ma, bu, ca, st, sf) ==
    [openErr |-> FALSE, scanErr |-> FALSE,
     lines |-> (IF junk THEN JunkLines ELSE <<>>)
               \o LinesOf(<< <<KMemTotal, mt>>, <<KMemFree, mf>>, <<KMemAvailable, ma>>,
                             <<KBuffers, bu>>, <<KCached, ca>>, <<KSwapTotal, st>>,
                             <<KSwapFree, sf>> >>, 1)]

Opt(S) == S \cup {Absent}

\* every choice of the memory keys with one swap report, and every choice of
\* the swap keys with MemTotal present and with MemTotal missing
MemInfoFiles ==
    { MemInfoFile(junk, mt, mf, ma, bu, ca, Itoa(1), Itoa(0)) :
        junk \in BOOLEAN,
        mt \in Opt(SmallStrs \cup {Str2p54}), mf \in Opt(SmallStrs \cup {Str2p54p1}),
        ma \in Opt(SmallStrs), bu \in Opt(SmallStrs), ca \in Opt(SmallStrs) }
    \cup { MemInfoFile(junk, mt, Itoa(1), Absent, Itoa(0), Itoa(0), st, sf) :
        junk \in BOOLEAN, mt \in {Itoa(1), Absent},
        st \in Opt(SmallStrs \cup {Str2p54}), sf \in Opt(SmallStrs \cup {Str2p54p1}) }
    \cup { [openErr |-> TRUE, scanErr |-> FALSE, lines |-> <<>>] }
    \cup { [openErr |-> FALSE, scanErr |-> TRUE,
            lines |-> <<MemInfoLine(KMemTotal, Itoa(1))>>] }

(***************************************************************************)
(* Wide arithmetic for the float64 product of parseMemSize.                *)
(***************************************************************************)
RECURSIVE DivC(_, _, _, _)
\* the quotient x \div k for a small k, limbs i down to 1, r the running remainder
DivC(x, k, i, r) ==
    IF i = 0 THEN <<>>
    ELSE LET cur == r * Base + x[i]
         IN  DivC(x, k, i - 1, cur % k) \o <<cur \div k>>

RECURSIVE MulPow(_, _, _)
\* x * k^n, n limbs longer than x
MulPow(x, k, n) == IF n = 0 THEN x ELSE MulPow(MulC(x, k, 1, 0), k, n - 1)

RECURSIVE DivPow(_, _, _)
\* x \div k^n
DivPow(x, k, n) == IF n = 0 THEN x ELSE DivPow(DivC(x, k, Len(x), 0), k, n - 1)

\* a limb sequence of any length: does it fit 64 bits, and its low 64 bits
FitsU64(x) == \A i \in 5..Len(x) : x[i] = 0
Low64(x) == SubSeq(Pad(x, 4), 1, 4)

\* 2^64 - x for a uint64 x # 0 (two's complement)
Neg64(x) == Add64([i \in 1..4 |-> Base - 1 - x[i]], Small64(1))

(***************************************************************************)
(* strconv.ParseFloat(s, 64) for decimal floats (sign, digits, fraction,   *)
(* decimal exponent) and the special values inf, infinity and nan.  The    *)
(* value is kept exactly, as mant * 10^exp10: the tokens this model runs   *)
(* on have a product below 2^48 with at most two fraction digits, or are   *)
(* integers below 2^53, where float64 arithmetic followed by truncation    *)
(* gives the exact floor (hexadecimal floats and "_" are not modelled).    *)
(***************************************************************************)
\* the lower-case form of a letter of "infinity", "nan" or the exponent mark
LowerChar(c) ==
    LET UpperChars == <<"I", "N", "F", "A", "T", "Y", "E">>
        LowerChars == <<"i", "n", "f", "a", "t", "y", "e">>
    IN  IF \E i \in 1..Len(UpperChars) : UpperChars[i] = c
        THEN LowerChars[CHOOSE i \in 1..Len(UpperChars) : UpperChars[i] = c]
        ELSE c

ToLower(s) == [i \in 1..Len(s) |-> LowerChar(s[i])]

RECURSIVE DigitsPrefixLen(_)
\* the number of leading decimal digits of s
DigitsPrefixLen(s) ==
    IF s = <<>> \/ ~IsAsciiDigit(Head(s)) THEN 0 ELSE 1 + DigitsPrefixLen(Tail(s))

RECURSIVE SmallNat(_, _)
\* the value of a short digit string
SmallNat(s, acc) == IF s = <<>> THEN acc ELSE SmallNat(Tail(s), acc * 10 + DigitVal(Head(s)))

FloatErr == [kind |-> "err", neg |-> FALSE, mant |-> <<0>>, exp10 |-> 0]

ParseFloat(s) ==
    LET signed == s # <<>> /\ Head(s) \in {"+", "-"}
        neg    == s # <<>> /\ Head(s) = "-"
        body   == IF signed THEN Tail(s) ELSE s
        low    == ToLower(body)
        i1     == DigitsPrefixLen(body)
        after1 == SubSeq(body, i1 + 1, Len(body))
        hasDot == after1 # <<>> /\ Head(after1) = "."
        frac   == IF hasDot THEN Tail(after1) ELSE after1
        i2     == IF hasDot THEN DigitsPrefixLen(frac) ELSE 0
        after2 == SubSeq(frac, i2 + 1, Len(frac))
        hasExp == after2 # <<>> /\ Head(after2) \in {"e", "E"}
        e1     == IF hasExp THEN Tail(after2) ELSE <<>>
        eNeg   == e1 # <<>> /\ Head(e1) = "-"
        eDig   == IF e1 # <<>> /\ Head(e1) \in {"+", "-"} THEN Tail(e1) ELSE e1
        expOk  == IF hasExp
                  THEN eDig # <<>> /\ Len(eDig) <= 2 /\ DigitsPrefixLen(eDig) = Len(eDig)
                  ELSE after2 = <<>>
        e      == IF hasExp /\ expOk THEN SmallNat(eDig, 0) ELSE 0
        digits == SubSeq(body, 1, i1) \o SubSeq(frac, 1, i2)
    IN  IF low = <<"i", "n", "f">> \/ low = <<"i", "n", "f", "i", "n", "i", "t", "y">>
        THEN [kind |-> "inf", neg |-> neg, mant |-> <<0>>, exp10 |-> 0]
        ELSE IF ~signed /\ low = <<"n", "a", "n">>
        THEN [kind |-> "nan", neg |-> FALSE, mant |-> <<0>>, exp10 |-> 0]
        ELSE IF i1 + i2 = 0 \/ ~expOk \/ Len(digits) > 22 THEN FloatErr
        ELSE [kind |-> "num", neg |-> neg,
              mant |-> ParseDigits(digits, <<0, 0, 0, 0, 0>>),
              exp10 |-> (IF eNeg THEN 0 - e ELSE e) - i2]

\* what uint64(f) may be when f is outside the range of uint64 (the Go
\* specification leaves it to the implementation): amd64 and arm64 builds
OutOfRange64 == {Zero64, <<0, 0, 0, Base \div 2>>, <<Base - 1, Base - 1, Base - 1, Base - 1>>}

\* uint64(val * float64(mult)) with mult = 1024^k: the possible results
FloatToUint64(f, k) ==
    IF f.kind # "num" THEN OutOfRange64
    ELSE LET scaled == MulPow(f.mant, 1024, k)
             whole  == IF f.exp10 >= 0 THEN MulPow(scaled, 10, f.exp10)
                       ELSE DivPow(scaled, 10, 0 - f.exp10)
         IN  IF (\A i \in 1..Len(whole) : whole[i] = 0) THEN {Zero64}
             ELSE IF ~FitsU64(whole) THEN OutOfRange64
             ELSE IF f.neg THEN {Zero64, Neg64(Low64(whole))}
             ELSE {Low64(whole)}

\* the suffix switch of parseMemSize: <<k, numeric portion>>, mult = 1024^k
SizeSuffix(sizeStr) ==
    IF HasSuffix(sizeStr, <<"K">>) THEN <<1, TrimSuffix(sizeStr, <<"K">>)>>
    ELSE IF HasSuffix(sizeStr, <<"M">>) THEN <<2, TrimSuffix(sizeStr, <<"M">>)>>
    ELSE IF HasSuffix(sizeStr, <<"G">>) THEN <<3, TrimSuffix(sizeStr, <<"G">>)>>
    ELSE IF HasSuffix(sizeStr, <<"T">>) THEN <<4, TrimSuffix(sizeStr, <<"T">>)>>
    ELSE <<0, sizeStr>>

\* parseMemSize(sizeStr): the set of possible [val, err]
parseMemSize(sizeStr) ==
    LET sfx == SizeSuffix(sizeStr)
        f   == ParseFloat(sfx[2])
    IN  IF f.kind = "err" THEN {[val |-> Zero64, err |-> "syntax"]}
        ELSE {[val |-> v, err |-> "nil"] : v \in FloatToUint64(f, sfx[1])}

(***************************************************************************)
(* Darwin reader: sysctl hw.memsize, vm_stat, sysctl vm.swapusage.         *)
(***************************************************************************)
KFree        == <<"f", "r", "e", "e">>
KInactive    == <<"i", "n", "a", "c", "t", "i", "v", "e">>
KSpeculative == <<"s", "p", "e", "c", "u", "l", "a", "t", "i", "v", "e">>
KFileBacked  == <<"f", "i", "l", "e", "-", "b", "a", "c", "k", "e", "d", " ",
                  "p", "a", "g", "e", "s">>
KCache       == <<"c", "a", "c", "h", "e">>
PagesPrefix  == <<"P", "a", "g", "e", "s", " ">>
MachHeader   == <<"M", "a", "c", "h", " ", "V", "i", "r", "t", "u", "a", "l", " ",
                  "M", "e", "m", "o", "r", "y", " ", "S", "t", "a", "t", "i", "s",
                  "t", "i", "c", "s">>

\* the number of ":" in s: strings.Split(s, ":") has one part more
ColonCount(s) == Cardinality({i \in 1..Len(s) : s[i] = ":"})

RECURSIVE TrimDots(_)
\* strings.Trim(s, ".")
TrimDots(s) ==
    IF s = <<>> THEN s
    ELSE IF Head(s) = "." THEN TrimDots(Tail(s))
    ELSE IF s[Len(s)] = "." THEN TrimDots(SubSeq(s, 1, Len(s) - 1))
    ELSE s

RECURSIVE parseVmStat(_, _)
\* the scan loop over the output of vm_stat: VmStats after the lines
parseVmStat(lines, stats) ==
    IF lines = <<>> THEN stats
    ELSE LET line == TrimSpace(Head(lines))
             rest == Tail(lines)
         IN  IF line = <<>> THEN parseVmStat(rest, stats)
             ELSE IF HasPrefix(line, MachHeader) THEN parseVmStat(rest, stats)
             ELSE IF ColonCount(line) # 1 THEN parseVmStat(rest, stats)
             ELSE LET parts    == SplitN2(line)
                      key      == TrimSpace(parts[1])
                      valueStr == TrimDots(TrimSpace(parts[2]))
                      p        == ParseUint(valueStr)
                  IN  IF p.err # "nil" THEN parseVmStat(rest, stats)
                      ELSE parseVmStat(rest, (TrimPrefix(key, PagesPrefix) :> p.val) @@ stats)

\* freePages and availablePages of DarwinMemoryReader.ReadSystemMemory
DarwinFreePages(VmStats) == Add64(Get(VmStats, KFree), Get(VmStats, KInactive))

\* a faulty variant of availablePages: cache is preferred to file-backed pages
DarwinAvailablePagesCacheFirst(VmStats) ==
    LET base == Add64(Add64(Get(VmStats, KFree), Get(VmStats, KInactive)),
                      Get(VmStats, KSpeculative))
    IN  IF Has(VmStats, KCache) THEN Add64(base, Get(VmStats, KCache))
        ELSE IF Has(VmStats, KFileBacked) THEN Add64(base, Get(VmStats, KFileBacked))
        ELSE base

DarwinAvailablePages(VmStats) ==
    LET base == Add64(Add64(Get(VmStats, KFree), Get(VmStats, KInactive)),
                      Get(VmStats, KSpeculative))
    IN  IF Has(VmStats, KFileBacked) THEN Add64(base, Get(VmStats, KFileBacked))
        ELSE IF Has(VmStats, KCache) THEN Add64(base, Get(VmStats, KCache))
        ELSE base

\* a faulty variant of the swap part: the free figure is read from the token
\* at index 5 (the used figure)
DarwinSwapUsedAsFree(out) ==
    LET parts == Fields(TrimSpace(out))
    IN  IF Len(parts) < 9
        THEN {[total |-> Zero64, free |-> Zero64, err |-> "SwapInfo"]}
        ELSE { IF t.err # "nil" THEN [total |-> Zero64, free |-> Zero64, err |-> "TotalSwap"]
               ELSE IF f.err # "nil"
                    THEN [total |-> Zero64, free |-> Zero64, err |-> "FreeSwap"]
               ELSE [total |-> t.val, free |-> f.val, err |-> "nil"] :
               t \in parseMemSize(parts[3]), f \in parseMemSize(parts[6]) }

\* the vm.swapusage part of ReadSystemMemory: the possible [total, free, err]
DarwinSwap(out) ==
    LET parts == Fields(TrimSpace(out))
    IN  IF Len(parts) < 9
        THEN {[total |-> Zero64, free |-> Zero64, err |-> "SwapInfo"]}
        ELSE { IF t.err # "nil" THEN [total |-> Zero64, free |-> Zero64, err |-> "TotalSwap"]
               ELSE IF f.err # "nil"
                    THEN [total |-> Zero64, free |-> Zero64, err |-> "FreeSwap"]
               ELSE [total |-> t.val, free |-> f.val, err |-> "nil"] :
               t \in parseMemSize(parts[3]), f \in parseMemSize(parts[9]) }

Fail(e) == {[info |-> ZeroInfo, err |-> e]}

\* DarwinMemoryReader.ReadSystemMemory on the outputs of its three commands:
\* the possible [info, err]
DarwinReadSystemMemory(cmds) ==
    IF cmds.memsize.err THEN Fail("exec")
    ELSE LET totalMemoryStr == TrimSpace(cmds.memsize.out)
             tm == ParseUint(totalMemoryStr)
         IN  IF totalMemoryStr = <<>> THEN Fail("nototal")
             ELSE IF tm.err # "nil" THEN Fail(tm.err)
             ELSE IF cmds.vmstat.err THEN Fail("exec")
             ELSE LET VmStats == parseVmStat(cmds.vmstat.out, EmptyMap)
                      freePages == DarwinFreePages(VmStats)
                      availablePages == DarwinAvailablePages(VmStats)
                  IN  IF cmds.swap.err THEN Fail("exec")
                      ELSE { IF sw.err # "nil" THEN [info |-> ZeroInfo, err |-> sw.err]
                             ELSE [info |-> SystemMemoryInfo(tm.val,
                                              Mul64(freePages, 4096),
                                              Mul64(availablePages, 4096),
                                              sw.total, sw.free),
                                   err |-> "nil"] :
                             sw \in DarwinSwap(cmds.swap.out) }

(***************************************************************************)
(* Per-process reads and process enumeration.                              *)
(***************************************************************************)
PathSep == <<"/">>
WProc   == <<"p", "r", "o", "c">>
WStatus == <<"s", "t", "a", "t", "u", "s">>
VmRSSLabel == <<"V", "m", "R", "S", "S", ":">>

\* filepath.Join(a, b, c) for non-empty clean elements
Join3(a, b, c) == a \o PathSep \o b \o PathSep \o c

\* the file a path names for a process whose working directory is wd
Resolve(wd, path) ==
    IF HasPrefix(path, PathSep) THEN path
    ELSE IF wd = PathSep THEN wd \o path
    ELSE wd \o PathSep \o path

\* os.Open(path) on the file system fs (a function from absolute paths to files)
CanOpen(fs, wd, path) == Resolve(wd, path) \in DOMAIN fs
Open(fs, wd, path) == fs[Resolve(wd, path)]

\* extractValue(line): [val, err]
extractValue(line) ==
    LET parts == SplitN2(line)
    IN  IF Len(parts) # 2 THEN [val |-> Zero64, err |-> "format"]
        ELSE LET v1 == TrimSpace(parts[2])
                 v2 == TrimSuffix(v1, <<"k", "B">>)
                 v3 == TrimSpace(v2)
                 p  == ParseUint(v3)
             IN  IF p.err # "nil" THEN [val |-> Zero64, err |-> "convert"]
                 ELSE [val |-> p.val, err |-> "nil"]

\* the path LinuxMemoryReader.ReadProcessMemory opens
StatusPathName(pid) == Join3(WProc, Itoa(pid), WStatus)

RECURSIVE ScanVmRSS(_)
\* the scan loop of ReadProcessMemory over the lines of the status file
ScanVmRSS(lines) ==
    IF lines = <<>> THEN [val |-> Zero64, err |-> "novmrss"]
    ELSE LET line == TrimSpace(Head(lines))
         IN  IF HasPrefix(line, VmRSSLabel)
             THEN LET e == extractValue(line)
                  IN  IF e.err # "nil" THEN [val |-> Zero64, err |-> e.err]
                      ELSE [val |-> Mul64(e.val, 1024), err |-> "nil"]
             ELSE ScanVmRSS(Tail(lines))

\* LinuxMemoryReader.ReadProcessMemory(pid): [val, err]
LinuxReadProcessMemory(fs, wd, pid) ==
    LET pathName == StatusPathName(pid)
    IN  IF ~CanOpen(fs, wd, pathName) THEN [val |-> Zero64, err |-> "open"]
        ELSE LET file == Open(fs, wd, pathName)
                 r    == ScanVmRSS(file.lines)
             IN  IF r.err = "novmrss" /\ file.scanErr
                 THEN [val |-> Zero64, err |-> "read"]
                 ELSE r

\* DarwinMemoryReader.ReadProcessMemory(pid) on the output of ps -p pid -o rss=
DarwinReadProcessMemory(cmd) ==
    IF cmd.err THEN [val |-> Zero64, err |-> "exec"]
    ELSE LET rssStr == TrimSpace(cmd.out)
             p      == ParseUint(rssStr)
         IN  IF rssStr = <<>> THEN [val |-> Zero64, err |-> "notfound"]
             ELSE IF p.err # "nil" THEN [val |-> Zero64, err |-> p.err]
             ELSE [val |-> Mul64(p.val, 1024), err |-> "nil"]

\* a rune unicode.IsDigit accepts that is no ASCII digit (ARABIC-INDIC DIGIT THREE)
ArabicThree == "U+0663"

\* unicode.IsDigit
IsDigit(c) == IsAsciiDigit(c) \/ c = ArabicThree

\* isAllDigits(s)
isAllDigits(s) == \A i \in 1..Len(s) : IsDigit(s[i])

\* strconv.Atoi(s): [val, err].  Digit strings of 10 to 18 digits are not
\* among the inputs; 19 digits and more are taken to be out of range
Atoi(s) ==
    LET signed == s # <<>> /\ Head(s) \in {"+", "-"}
        body   == IF signed THEN Tail(s) ELSE s
    IN  IF body = <<>> \/ \E i \in 1..Len(body) : ~IsAsciiDigit(body[i])
        THEN [val |-> 0, err |-> "syntax"]
        ELSE IF Len(body) >= 19 THEN [val |-> 0, err |-> "range"]
        ELSE [val |-> (IF Head(s) = "-" THEN 0 - SmallNat(body, 0) ELSE SmallNat(body, 0)),
              err |-> "nil"]

RECURSIVE LinuxScanEntriesNoPositive(_)
\* a faulty variant of the loop: the test pid > 0 is missing
LinuxScanEntriesNoPositive(entries) ==
    IF entries = <<>> THEN <<>>
    ELSE LET entry == Head(entries)
             rest  == LinuxScanEntriesNoPositive(Tail(entries))
             a     == Atoi(entry.name)
         IN  IF ~entry.isDir THEN rest
             ELSE IF ~isAllDigits(entry.name) THEN rest
             ELSE IF a.err # "nil" THEN rest
             ELSE <<a.val>> \o rest

RECURSIVE LinuxScanEntries(_)
\* the loop of LinuxMemoryReader.GetProcessList over the entries of /proc
LinuxScanEntries(entries) ==
    IF entries = <<>> THEN <<>>
    ELSE LET entry == Head(entries)
             rest  == LinuxScanEntries(Tail(entries))
             a     == Atoi(entry.name)
         IN  IF ~entry.isDir THEN rest
             ELSE IF ~isAllDigits(entry.name) THEN rest
             ELSE IF a.err # "nil" THEN rest
             ELSE IF a.val > 0 THEN <<a.val>> \o rest
             ELSE rest

\* LinuxMemoryReader.GetProcessList on the listing of /proc: [pids, err]
LinuxGetProcessList(dir) ==
    IF dir.err THEN [pids |-> <<>>, err |-> "readdir"]
    ELSE [pids |-> LinuxScanEntries(dir.entries), err |-> "nil"]

RECURSIVE DarwinScanLines(_)
\* the loop of DarwinMemoryReader.GetProcessList over the lines of ps -e -o pid=
DarwinScanLines(lines) ==
    IF lines = <<>> THEN <<>>
    ELSE LET line == TrimSpace(Head(lines))
             rest == DarwinScanLines(Tail(lines))
             a    == Atoi(line)
         IN  IF line = <<>> THEN rest
             ELSE IF a.err # "nil" THEN rest
             ELSE <<a.val>> \o rest

\* DarwinMemoryReader.GetProcessList: [pids, err]
DarwinGetProcessList(cmd) ==
    IF cmd.err THEN [pids |-> <<>>, err |-> "exec"]
    ELSE [pids |-> DarwinScanLines(cmd.out), err |-> "nil"]

(***************************************************************************)
(* The command outputs the Darwin reader is run on.                        *)
(***************************************************************************)
CmdOk(out) == [err |-> FALSE, out |-> out]
CmdErr == [err |-> TRUE, out |-> <<>>]

\* 2^52 in decimal: the smallest page count whose byte count wraps
Str2p52 == <<"4", "5", "0", "3", "5", "9", "9", "6", "2", "7", "3", "7", "0", "4", "9", "6">>

\* a line "Pages key:   value."
VmStatLine(key, valueStr) ==
    PagesPrefix \o key \o <<":", " ", " ">> \o valueStr \o <<".">>

\* the report of vm_stat: its header, a line with two colons, the page counts;
\* the file-backed line carries no "Pages " prefix
VmStatOut(fr, ina, sp, fb, ca) ==
    << MachHeader \o <<":", " ", "(", "4", "0", "9", "6", ")">>,
       <<"a", ":", "b", ":", "1", ".">> >>
    \o (IF fr = Absent THEN <<>> ELSE <<VmStatLine(KFree, fr)>>)
    \o (IF ina = Absent THEN <<>> ELSE <<VmStatLine(KInactive, ina)>>)
    \o (IF sp = Absent THEN <<>> ELSE <<VmStatLine(KSpeculative, sp)>>)
    \o (IF fb = Absent THEN <<>> ELSE <<KFileBacked \o <<":", " ">> \o fb \o <<".">> >>)
    \o (IF ca = Absent THEN <<>> ELSE <<VmStatLine(KCache, ca)>>)

VmStatOuts ==
    { VmStatOut(fr, ina, sp, fb, ca) :
        fr \in Opt(SmallStrs \cup {Str2p52}), ina \in Opt(SmallStrs),
        sp \in Opt(SmallStrs), fb \in Opt(SmallStrs), ca \in Opt(SmallStrs) }

\* hw.memsize: a byte count and the newline sysctl prints
MemSizeOuts ==
    { Itoa(4096 * n) \o <<"\n">> : n \in 0..(MaxKb + 1) }
    \cup { <<"\n">>, <<"a", "b", "c", "\n">> }

D00 == <<".", "0", "0">>

\* tokens of the swap report: n.00M, a K figure with a fraction, a token that
\* is no number, an infinity and 2^24 T = 2^64 bytes
SwapTokens ==
    { Itoa(n) \o D00 \o <<"M">> : n \in 0..(MaxKb + 1) }
    \cup { <<"1", ".", "5", "0", "K">>, <<"a", "b", "c">>, <<"I", "n", "f">>,
           <<"1", "6", "7", "7", "7", "2", "1", "6">> \o D00 \o <<"T">> }

Zero00M == <<"0">> \o D00 \o <<"M">>

\* "total = T  used = 0.00M  free = F  (encrypted)"
SwapText(t, f) ==
    <<"t", "o", "t", "a", "l", " ", "=", " ">> \o t
    \o <<" ", " ", "u", "s", "e", "d", " ", "=", " ">> \o Zero00M
    \o <<" ", " ", "f", "r", "e", "e", " ", "=", " ">> \o f
    \o <<" ", " ", "(", "e", ")", "\n">>

\* reports with fewer than nine tokens: none, three ("total = 0.00M") and
\* eight (cut after "free =")
ShortSwapTexts ==
    { <<"\n">>, SubSeq(SwapText(Zero00M, Zero00M), 1, 13),
      SubSeq(SwapText(Zero00M, Zero00M), 1, 35) }

\* the three command outputs, with the tokens the swap report was built from
DarwinCmds(ms, vs, sw, toks) ==
    [memsize |-> ms, vmstat |-> vs, swap |-> sw, swapToks |-> toks]

OneM == <<"1">> \o D00 \o <<"M">>
GoodSwap == CmdOk(SwapText(OneM, Zero00M))
GoodMemSize == CmdOk(Itoa(4096 * (MaxKb + 1)) \o <<"\n">>)
NoToks == <<>>

DarwinInputs ==
    { DarwinCmds(CmdOk(ms), CmdOk(vs), GoodSwap, <<OneM, Zero00M>>) :
        ms \in MemSizeOuts, vs \in VmStatOuts }
    \cup { DarwinCmds(GoodMemSize, CmdOk(VmStatOut(Itoa(1), Absent, Absent, Absent, Absent)),
                      CmdOk(SwapText(t, f)), <<t, f>>) :
           t \in SwapTokens, f \in SwapTokens }
    \cup { DarwinCmds(GoodMemSize, CmdOk(VmStatOut(Itoa(1), Absent, Absent, Absent, Absent)),
                      CmdOk(sw), NoToks) : sw \in ShortSwapTexts }
    \cup { DarwinCmds(CmdErr, CmdOk(VmStatOut(Itoa(1), Absent, Absent, Absent, Absent)),
                      GoodSwap, NoToks),
           DarwinCmds(GoodMemSize, CmdErr, GoodSwap, NoToks),
           DarwinCmds(GoodMemSize, CmdOk(VmStatOut(Itoa(1), Absent, Absent, Absent, Absent)),
                      CmdErr, NoToks) }

(***************************************************************************)
(* The tokens parseMemSize is run on.                                      *)
(***************************************************************************)
\* numeric portions range over 0..MaxNum with a fraction in hundredths
MaxNum == 2

Suffixes == <<<<>>, <<"K">>, <<"M">>, <<"G">>, <<"T">>>>

\* the fractions written, and their value in hundredths
Fractions == << <<>>, D00, <<".", "5", "0">>, <<".", "0", "1">>, <<".">> >>
FractionHundredths == <<0, 0, 50, 1, 0>>

\* a token n.ff with suffix number k + 1: its text, and what it denotes
\* (hundredths |-> 100 * n.ff, k)
DecimalToken(n, fi, k) ==
    [tok |-> Itoa(n) \o Fractions[fi] \o Suffixes[k + 1], class |-> "decimal",
     hundredths |-> 100 * n + FractionHundredths[fi], k |-> k]

OtherToken(tok, class) == [tok |-> tok, class |-> class, hundredths |-> 0, k |-> 0]

SizeTokens ==
    { DecimalToken(n, fi, k) : n \in 0..MaxNum, fi \in 1..Len(Fractions), k \in 0..4 }
    \cup { OtherToken(<<>>, "garbage"), OtherToken(<<"K">>, "garbage"),
           OtherToken(<<"a", "b", "c">>, "garbage"), OtherToken(<<"1", "x", "M">>, "garbage"),
           OtherToken(<<"1", ".", "2", ".", "3">>, "garbage"),
           OtherToken(<<"1", "K", "B">>, "garbage"),
           OtherToken(<<"I", "n", "f">>, "special"),
           OtherToken(<<"i", "n", "f", "i", "n", "i", "t", "y", "G">>, "special"),
           OtherToken(<<"N", "a", "N">>, "special"),
           OtherToken(<<"-", "1", ".", "0", "0", "M">>, "negative"),
           OtherToken(<<"1", "e", "3">>, "exponent"),
           OtherToken(<<"1", "6", "7", "7", "7", "2", "1", "6">> \o D00 \o <<"T">>, "huge") }

(***************************************************************************)
(* The status files and file systems the Linux per-process read runs on.   *)
(***************************************************************************)
\* processes have PIDs 1..MaxPid
MaxPid == 2

WTmp == <<"/", "t", "m", "p">>

\* a status file: its lines, and the VmRSS figure it holds (Absent: none)
StatusWithRss(v) ==
    [lines |-> << <<"N", "a", "m", "e", ":", "\t", "x">>,
                  VmRSSLabel \o <<"\t", " ", " ">> \o v \o <<" ", "k", "B">>,
                  <<"T", "h", "r", "e", "a", "d", "s", ":", "\t", "1">> >>,
     scanErr |-> FALSE, rss |-> v]

StatusNoRss ==
    [lines |-> << <<"N", "a", "m", "e", ":", "\t", "x">> >>, scanErr |-> FALSE, rss |-> Absent]

StatusBadRss ==
    [lines |-> << VmRSSLabel \o <<" ", "a", "b", "c", " ", "k", "B">> >>,
     scanErr |-> FALSE, rss |-> Absent]

StatusReadError ==
    [lines |-> << <<"N", "a", "m", "e", ":", "\t", "x">> >>, scanErr |-> TRUE, rss |-> Absent]

StatusFiles ==
    { StatusWithRss(v) : v \in SmallStrs \cup {Str2p54p1} }
    \cup { StatusNoRss, StatusBadRss, StatusReadError }

NoFile == [lines |-> <<>>, scanErr |-> FALSE, rss |-> <<"n", "o", "f", "i", "l", "e">>]

AbsStatusPath(pid) == PathSep \o Join3(WProc, Itoa(pid), WStatus)

\* the file system with abs at /proc/<pid>/status and rel at <dir>/proc/<pid>/status
\* (NoFile: no such file)
FileSystem(pid, abs, dir, rel) ==
    LET a == IF abs = NoFile THEN EmptyMap ELSE (AbsStatusPath(pid) :> abs)
        r == IF rel = NoFile \/ dir = PathSep THEN EmptyMap
             ELSE ((dir \o AbsStatusPath(pid)) :> rel)
    IN  a @@ r

ProcReadInputs ==
    { [fs |-> FileSystem(pid, abs, dir, rel), cwd |-> dir, pid |-> pid, abs |-> abs] :
        pid \in 1..MaxPid, abs \in StatusFiles \cup {NoFile}, dir \in {PathSep, WTmp},
        rel \in StatusFiles \cup {NoFile} }

(***************************************************************************)
(* main: the inputs of the polling loop.                                   *)
(***************************************************************************)
\* polls taken by the loop
MaxTicks == 2


\* /proc/meminfo as a poll may find it
MainMemInfoFiles ==
    { MemInfoFile(FALSE, Itoa(1), Itoa(1), Absent, Absent, Absent, Itoa(1), Itoa(0)),
      MemInfoFile(TRUE, Itoa(0), Itoa(0), Itoa(1), Absent, Absent, Itoa(0), Itoa(1)),
      MemInfoFile(FALSE, Itoa(1), Itoa(0), Absent, Absent, Absent, Itoa(1), Absent),
      [openErr |-> TRUE, scanErr |-> FALSE, lines |-> <<>>] }

\* the three command outputs as a poll may find them
MainDarwinCmds ==
    { DarwinCmds(GoodMemSize, CmdOk(VmStatOut(Itoa(1), Absent, Absent, Absent, Absent)),
                 GoodSwap, NoToks),
      DarwinCmds(CmdOk(Itoa(0) \o <<"\n">>), CmdOk(VmStatOut(Itoa(1), Absent, Absent, Itoa(1), Absent)),
                 CmdOk(SwapText(Zero00M, OneM)), NoToks),
      DarwinCmds(GoodMemSize, CmdOk(VmStatOut(Itoa(1), Absent, Absent, Absent, Absent)),
                 CmdOk(<<"\n">>), NoToks),
      DarwinCmds(CmdErr, CmdErr, CmdErr, NoToks) }

\* a directory entry: entry.Name() and entry.IsDir()
DirEntry(name, isDir) == [name |-> name, isDir |-> isDir]

RECURSIVE PidDirs(_, _)
\* the directories of the PIDs of S from p up, in ascending order
PidDirs(S, p) ==
    IF p > MaxPid THEN <<>>
    ELSE (IF p \in S THEN <<DirEntry(Itoa(p), TRUE)>> ELSE <<>>) \o PidDirs(S, p + 1)

\* /proc as os.ReadDir lists it: "0" and a file "7" before the PID
\* directories, "self" and a name of non-ASCII digits after them
ProcListings ==
    { [err |-> FALSE,
       entries |-> <<DirEntry(Itoa(0), TRUE), DirEntry(<<"7">>, FALSE)>> \o PidDirs(S, 1)
                   \o <<DirEntry(<<"s", "e", "l", "f">>, TRUE), DirEntry(<<ArabicThree>>, TRUE)>>] :
        S \in SUBSET (1..MaxPid) }
    \cup { [err |-> TRUE, entries |-> <<>>] }

\* config.TopProcesses as main sets it
TopProcesses == 10

\* a listing of ps longer than TopProcesses: the PIDs after MaxPid, one more
\* than TopProcesses of them
LongPsListing == [i \in 1..(TopProcesses + 1) |-> <<" ", " ">> \o Itoa(MaxPid + i)]

RECURSIVE PidLines(_, _)
PidLines(S, p) ==
    IF p > MaxPid THEN <<>>
    ELSE (IF p \in S THEN << <<" ", " ">> \o Itoa(p) >> ELSE <<>>) \o PidLines(S, p + 1)

\* the output of ps -e -o pid=: right-aligned PIDs, a line 0, a line that is
\* no number, a blank line
PsListings ==
    { CmdOk(<< <<" ", " ", "0">> >> \o PidLines(S, 1) \o << <<"P", "I", "D">>, <<" ">> >>) :
        S \in SUBSET (1..MaxPid) }
    \cup { CmdOk(<< <<" ", "-", "1">> >>), CmdOk(LongPsListing), CmdErr }

\* the file system as one per-process read may find it
MainFileSystems(dir, pid) ==
    { FileSystem(pid, abs, dir, rel) :
        abs \in {StatusWithRss(Itoa(1)), NoFile}, rel \in {StatusWithRss(Itoa(1)), NoFile} }

\* the output of ps -p pid -o rss= as one per-process read may find it (the
\* processes of the long listing, PIDs after MaxPid, are all readable)
MainPsRss == { CmdOk(<<" ", "1", "\n">>), CmdOk(<<"\n">>), CmdErr }

(***************************************************************************)
(* main.                                                                   *)
(***************************************************************************)
\* getProcName(pid)
getProcName(pid) ==
    IF pid \in {1234, 1001} THEN <<"chrome">>
    ELSE IF pid \in {5678, 2002} THEN <<"vscode">>
    ELSE IF pid \in {9101, 3003} THEN <<"terminal">>
    ELSE <<"process-", pid>>

ProcessInfo(pid, name, mem) == [PID |-> pid, Name |-> name, MemoryUsage |-> mem]

\* the reader's three operations, dispatched on the variant selected: the
\* results each may give in the environment of the moment
ReadSystemMemoryResults ==
    IF reader = "linux" THEN { LinuxReadSystemMemory(f) : f \in MainMemInfoFiles }
    ELSE UNION { DarwinReadSystemMemory(c) : c \in MainDarwinCmds }

GetProcessListResults ==
    IF reader = "linux" THEN { LinuxGetProcessList(d) : d \in ProcListings }
    ELSE { DarwinGetProcessList(c) : c \in PsListings }

ReadProcessMemoryResults(pid) ==
    IF reader = "linux"
    THEN { LinuxReadProcessMemory(fs, cwd, pid) : fs \in MainFileSystems(cwd, pid) }
    ELSE { DarwinReadProcessMemory(c) :
             c \in IF pid > MaxPid THEN {CmdOk(<<" ", "1", "\n">>)} ELSE MainPsRss }

NoDashboard == [shown |-> FALSE, stats |-> ZeroInfo, processes |-> <<>>]

callVars == <<fn, arg, ret, fpc>>
mainVars == <<pc, goos, cwd, reader, sigChan, tickC, sysInfo, err, pids, idx, processes,
              rendered, printed, exitCode, readLog, nTicks, nDash, nFail>>
pollVars == <<sysInfo, err, pids, idx, processes, rendered, readLog>>
histVars == <<nTicks, nDash, nFail>>
vars == <<callVars, mainVars>>

\* main is not running: the state of main in the single-call specifications
MainOff ==
    /\ pc = "off" /\ goos = "none" /\ cwd = PathSep /\ reader = "none"
    /\ sigChan = 0 /\ tickC = 0 /\ sysInfo = ZeroInfo /\ err = "nil"
    /\ pids = <<>> /\ idx = 1 /\ processes = <<>> /\ rendered = NoDashboard
    /\ printed = "none" /\ exitCode = -1 /\ readLog = <<>>
    /\ nTicks = 0 /\ nDash = 0 /\ nFail = 0

Init ==
    /\ fn = "main" /\ arg = <<>> /\ ret = [info |-> ZeroInfo, err |-> "pending"]
    /\ fpc = "off"
    /\ pc = "start"
    /\ goos \in {"linux", "darwin", "windows"}
    /\ cwd \in {PathSep, WTmp}
    /\ reader = "none"
    /\ sigChan = 0 /\ tickC = 0 /\ sysInfo = ZeroInfo /\ err = "nil"
    /\ pids = <<>> /\ idx = 1 /\ processes = <<>> /\ rendered = NoDashboard
    /\ printed = "none" /\ exitCode = -1 /\ readLog = <<>>
    /\ nTicks = 0 /\ nDash = 0 /\ nFail = 0

\* a faulty variant of the switch: the Linux reader whatever the system is
SelectReaderAlwaysLinux ==
    /\ pc = "start"
    /\ goos \in {"darwin", "linux"}
    /\ reader' = "linux"
    /\ printed' = "starting"
    /\ pc' = "select"
    /\ UNCHANGED <<callVars, goos, cwd, sigChan, tickC, pollVars, exitCode, histVars>>

\* the switch on runtime.GOOS, signal.Notify, time.NewTicker, the first Printf
SelectReader ==
    /\ pc = "start"
    /\ goos \in {"darwin", "linux"}
    /\ reader' = goos
    /\ printed' = "starting"
    /\ pc' = "select"
    /\ UNCHANGED <<callVars, goos, cwd, sigChan, tickC, pollVars, exitCode, histVars>>

\* the default case of the switch: the message, then return from main
Unsupported ==
    /\ pc = "start"
    /\ goos \notin {"darwin", "linux"}
    /\ printed' = "unsupported"
    /\ exitCode' = 0
    /\ pc' = "exited"
    /\ UNCHANGED <<callVars, goos, cwd, reader, sigChan, tickC, pollVars, histVars>>

\* the runtime delivers SIGINT or SIGTERM: a send on sigChan that does not block
Signal ==
    /\ pc \notin {"start", "exited", "off"}
    /\ sigChan = 0
    /\ sigChan' = 1
    /\ UNCHANGED <<callVars, pc, goos, cwd, reader, tickC, pollVars, printed, exitCode,
                   histVars>>

\* the ticker sends on ticker.C, dropping the tick when the buffer is full
Tick ==
    /\ pc \notin {"start", "exited", "off"}
    /\ tickC = 0
    /\ nTicks < MaxTicks
    /\ tickC' = 1
    /\ UNCHANGED <<callVars, pc, goos, cwd, reader, sigChan, pollVars, printed, exitCode,
                   histVars>>

\* a faulty variant of the case: the signal is received and the loop goes on
SelectSignalGoesOn ==
    /\ pc = "select"
    /\ sigChan = 1
    /\ sigChan' = 0
    /\ printed' = "exiting"
    /\ UNCHANGED <<callVars, pc, goos, cwd, reader, tickC, pollVars, exitCode, histVars>>

\* case <-sigChan
SelectSignal ==
    /\ pc = "select"
    /\ sigChan = 1
    /\ sigChan' = 0
    /\ printed' = "exiting"
    /\ exitCode' = 0
    /\ pc' = "exited"
    /\ UNCHANGED <<callVars, goos, cwd, reader, tickC, pollVars, histVars>>

\* a faulty variant of the case: the process list of the last poll is kept
SelectTickKeepsProcesses ==
    /\ pc = "select"
    /\ tickC = 1
    /\ tickC' = 0
    /\ nTicks' = nTicks + 1
    /\ pc' = "readSys"
    /\ sysInfo' = ZeroInfo /\ err' = "nil" /\ pids' = <<>> /\ idx' = 1
    /\ rendered' = NoDashboard /\ readLog' = <<>>
    /\ UNCHANGED <<callVars, goos, cwd, reader, sigChan, printed, exitCode, nDash, nFail,
                   processes>>

\* case <-ticker.C: a poll starts; its variables are declared anew
SelectTick ==
    /\ pc = "select"
    /\ tickC = 1
    /\ tickC' = 0
    /\ nTicks' = nTicks + 1
    /\ pc' = "readSys"
    /\ sysInfo' = ZeroInfo /\ err' = "nil" /\ pids' = <<>> /\ idx' = 1
    /\ processes' = <<>> /\ rendered' = NoDashboard /\ readLog' = <<>>
    /\ UNCHANGED <<callVars, goos, cwd, reader, sigChan, printed, exitCode, nDash, nFail>>

\* a faulty variant of the step: the continue is missing, the poll goes on
PollReadSystemMemoryNoContinue ==
    /\ pc = "readSys"
    /\ \E r \in ReadSystemMemoryResults :
          /\ sysInfo' = r.info
          /\ err' = r.err
          /\ IF r.err # "nil"
             THEN /\ printed' = "errsys" /\ nFail' = nFail + 1 /\ pc' = "getList"
             ELSE /\ pc' = "getList" /\ UNCHANGED <<printed, nFail>>
    /\ UNCHANGED <<callVars, goos, cwd, reader, sigChan, tickC, pids, idx, processes,
                   rendered, exitCode, readLog, nTicks, nDash>>

\* sysInfo, err := reader.ReadSystemMemory(), and the continue on an error
PollReadSystemMemory ==
    /\ pc = "readSys"
    /\ \E r \in ReadSystemMemoryResults :
          /\ sysInfo' = r.info
          /\ err' = r.err
          /\ IF r.err # "nil"
             THEN /\ printed' = "errsys" /\ nFail' = nFail + 1 /\ pc' = "select"
             ELSE /\ pc' = "getList" /\ UNCHANGED <<printed, nFail>>
    /\ UNCHANGED <<callVars, goos, cwd, reader, sigChan, tickC, pids, idx, processes,
                   rendered, exitCode, readLog, nTicks, nDash>>

\* pids, err := reader.GetProcessList(), and the continue on an error
PollGetProcessList ==
    /\ pc = "getList"
    /\ \E r \in GetProcessListResults :
          /\ pids' = r.pids
          /\ err' = r.err
          /\ IF r.err # "nil"
             THEN /\ printed' = "errlist" /\ nFail' = nFail + 1 /\ pc' = "select"
             ELSE /\ pc' = "scan" /\ UNCHANGED <<printed, nFail>>
    /\ UNCHANGED <<callVars, goos, cwd, reader, sigChan, tickC, sysInfo, idx, processes,
                   rendered, exitCode, readLog, nTicks, nDash>>

\* a faulty variant of the iteration: a failed read ends the loop over pids
PollReadProcessMemoryBreak ==
    /\ pc = "scan"
    /\ idx <= Len(pids)
    /\ \E r \in ReadProcessMemoryResults(pids[idx]) :
          /\ readLog' = Append(readLog, r.err)
          /\ processes' = IF r.err = "nil"
                          THEN Append(processes,
                                      ProcessInfo(pids[idx], getProcName(pids[idx]), r.val))
                          ELSE processes
          /\ idx' = IF r.err = "nil" THEN idx + 1 ELSE Len(pids) + 1
    /\ UNCHANGED <<callVars, pc, goos, cwd, reader, sigChan, tickC, sysInfo, err, pids,
                   rendered, printed, exitCode, histVars>>

\* one iteration of the loop over pids
PollReadProcessMemory ==
    /\ pc = "scan"
    /\ idx <= Len(pids)
    /\ \E r \in ReadProcessMemoryResults(pids[idx]) :
          /\ readLog' = Append(readLog, r.err)
          /\ processes' = IF r.err = "nil"
                          THEN Append(processes,
                                      ProcessInfo(pids[idx], getProcName(pids[idx]), r.val))
                          ELSE processes
    /\ idx' = idx + 1
    /\ UNCHANGED <<callVars, pc, goos, cwd, reader, sigChan, tickC, sysInfo, err, pids,
                   rendered, printed, exitCode, histVars>>

\* DisplayDashboard(sysInfo, processes, config) after the loop over pids
PollDisplayDashboard ==
    /\ pc = "scan"
    /\ idx > Len(pids)
    /\ rendered' = [shown |-> TRUE, stats |-> sysInfo, processes |-> processes]
    /\ printed' = "dashboard"
    /\ nDash' = nDash + 1
    /\ pc' = "select"
    /\ UNCHANGED <<callVars, goos, cwd, reader, sigChan, tickC, sysInfo, err, pids, idx,
                   processes, exitCode, readLog, nTicks, nFail>>

Next ==
    \/ SelectReader \/ Unsupported \/ Signal \/ Tick \/ SelectSignal \/ SelectTick
    \/ PollReadSystemMemory \/ PollGetProcessList \/ PollReadProcessMemory
    \/ PollDisplayDashboard

Spec == Init /\ [][Next]_vars

\* every operation of a poll in progress returns, so that the loop is not in
\* the middle of a poll for ever, and the select, which picks among its ready
\* cases at random, does not pass over a pending signal for ever
Fairness ==
    /\ []<>(pc \notin {"readSys", "getList", "scan"})
    /\ SF_vars(SelectSignal)

SpecFair == Spec /\ Fairness

(***************************************************************************)
(* Single-call specifications: one operation applied to one input.         *)
(***************************************************************************)
NoRet == [info |-> ZeroInfo, err |-> "pending"]

InitSys ==
    /\ \/ fn = "LinuxReadSystemMemory" /\ arg \in MemInfoFiles
       \/ fn = "DarwinReadSystemMemory" /\ arg \in DarwinInputs
    /\ ret = NoRet
    /\ fpc = "call"
    /\ MainOff

CallLinuxReadSystemMemory ==
    /\ fpc = "call"
    /\ fn = "LinuxReadSystemMemory"
    /\ ret' = LinuxReadSystemMemory(arg)
    /\ fpc' = "done"
    /\ UNCHANGED <<fn, arg, mainVars>>

CallDarwinReadSystemMemory ==
    /\ fpc = "call"
    /\ fn = "DarwinReadSystemMemory"
    /\ \E r \in DarwinReadSystemMemory(arg) : ret' = r
    /\ fpc' = "done"
    /\ UNCHANGED <<fn, arg, mainVars>>

NextSys == CallLinuxReadSystemMemory \/ CallDarwinReadSystemMemory

SpecSys == InitSys /\ [][NextSys]_vars

InitParse ==
    /\ fn = "parseMemSize"
    /\ arg \in SizeTokens
    /\ ret = [val |-> Zero64, err |-> "pending"]
    /\ fpc = "call"
    /\ MainOff

CallParseMemSize ==
    /\ fpc = "call"
    /\ fn = "parseMemSize"
    /\ \E r \in parseMemSize(arg.tok) : ret' = r
    /\ fpc' = "done"
    /\ UNCHANGED <<fn, arg, mainVars>>

SpecParse == InitParse /\ [][CallParseMemSize]_vars

InitProc ==
    /\ fn = "LinuxReadProcessMemory"
    /\ arg \in ProcReadInputs
    /\ ret = [val |-> Zero64, err |-> "pending"]
    /\ fpc = "call"
    /\ MainOff

CallLinuxReadProcessMemory ==
    /\ fpc = "call"
    /\ fn = "LinuxReadProcessMemory"
    /\ ret' = LinuxReadProcessMemory(arg.fs, arg.cwd, arg.pid)
    /\ fpc' = "done"
    /\ UNCHANGED <<fn, arg, mainVars>>

SpecProc == InitProc /\ [][CallLinuxReadProcessMemory]_vars

\* the longest listing of /proc a single call of GetProcessList is run on
MaxEntries == 3

\* 10^19 in decimal: a digit name beyond the range of int
Str1e19 == <<"1">> \o [i \in 1..19 |-> "0"]

\* entries of /proc: directories 0..MaxPid, "01", a name beyond int, "self",
\* a name of non-ASCII digits, and a regular file with a digit name
ProcEntries ==
    { DirEntry(Itoa(p), TRUE) : p \in 0..MaxPid }
    \cup { DirEntry(<<"0", "1">>, TRUE), DirEntry(Str1e19, TRUE),
           DirEntry(<<"s", "e", "l", "f">>, TRUE), DirEntry(<<ArabicThree>>, TRUE),
           DirEntry(Itoa(1), FALSE) }

ListInputs ==
    UNION { { [err |-> FALSE, entries |-> es] : es \in [1..n -> ProcEntries] } :
            n \in 0..MaxEntries }
    \cup { [err |-> TRUE, entries |-> <<>>] }

InitList ==
    /\ fn = "LinuxGetProcessList"
    /\ arg \in ListInputs
    /\ ret = [pids |-> <<>>, err |-> "pending"]
    /\ fpc = "call"
    /\ MainOff

CallLinuxGetProcessList ==
    /\ fpc = "call"
    /\ fn = "LinuxGetProcessList"
    /\ ret' = LinuxGetProcessList(arg)
    /\ fpc' = "done"
    /\ UNCHANGED <<fn, arg, mainVars>>

SpecList == InitList /\ [][CallLinuxGetProcessList]_vars

(***************************************************************************)
(* Properties.                                                             *)
(***************************************************************************)
PidsOf(procs) == [i \in 1..Len(procs) |-> procs[i].PID]

RECURSIVE OkPids(_, _)
\* the PIDs of ps whose read, logged at the same position of log, gave no error
OkPids(ps, log) ==
    IF ps = <<>> THEN <<>>
    ELSE (IF Head(log) = "nil" THEN <<Head(ps)>> ELSE <<>>) \o OkPids(Tail(ps), Tail(log))

\* C1: in every poll the process list handed to DisplayDashboard holds exactly
\* the enumerated PIDs whose ReadProcessMemory returned no error, in
\* enumeration order; a failed read never stops the scan of the remaining
\* PIDs (every PID is read before the dashboard) and never fails the poll
\* (a poll that read a process ends with a dashboard, not an abandoned poll).
C1_DashboardListsReadablePids ==
    /\ pc = "scan" =>
          /\ Len(readLog) = idx - 1
          /\ PidsOf(processes) = OkPids(SubSeq(pids, 1, idx - 1), readLog)
    /\ rendered.shown =>
          /\ Len(readLog) = Len(pids)
          /\ PidsOf(rendered.processes) = OkPids(pids, readLog)
    /\ (pc \in {"select", "exited"} /\ readLog # <<>>) => rendered.shown

\* C1 witness: a dashboard after a poll in which one read failed and a later one succeeded
C1_Witness ==
    /\ rendered.shown
    /\ \E i \in 1..Len(readLog) : \E j \in (i + 1)..Len(readLog) :
          readLog[i] # "nil" /\ readLog[j] = "nil"

\* C2: a poll whose ReadSystemMemory or GetProcessList returns an error is
\* abandoned at once: the error is printed, no dashboard is rendered and no
\* per-process read is made in that tick, the process does not exit, and the
\* loop is back at its select, where the next tick starts a fresh poll.
C2_FailedPollAbandoned ==
    /\ [](err # "nil" =>
             /\ pc \in {"select", "exited"}
             /\ ~rendered.shown
             /\ readLog = <<>>)
    /\ [][(pc \in {"readSys", "getList"} /\ err' # "nil") =>
             /\ pc' = "select"
             /\ printed' = (IF pc = "readSys" THEN "errsys" ELSE "errlist")
             /\ exitCode' = -1
             /\ nDash' = nDash]_vars
    /\ [][(err # "nil" /\ pc = "select" /\ pc' # "select") =>
             \/ pc' = "exited" /\ sigChan = 1
             \/ pc' = "readSys" /\ err' = "nil" /\ readLog' = <<>> /\ ~rendered'.shown]_vars

\* C2 witness: a dashboard is rendered in a tick after an abandoned poll
C2_Witness == nFail >= 1 /\ rendered.shown /\ pc = "select"

\* the mapping parseMemInfo builds from the lines of the call's file
MemInfoMapping == parseMemInfoLines(arg.lines, EmptyMap)

RequiredKeys == {KMemTotal, KMemFree, KSwapTotal, KSwapFree}

LinuxSysDone ==
    fpc = "done" /\ fn = "LinuxReadSystemMemory" /\ ~arg.openErr /\ ~arg.scanErr

\* C3: LinuxMemoryReader.ReadSystemMemory returns an error whenever one of
\* MemTotal, MemFree, SwapTotal, SwapFree is absent from the parsed mapping,
\* whatever other fields are present, and no error when all four are present.
C3_RequiredFields ==
    LinuxSysDone =>
        ((ret.err # "nil") <=> (\E k \in RequiredKeys : ~Has(MemInfoMapping, k)))

\* C3 witness: only SwapFree is missing, and the call failed
C3_Witness ==
    /\ LinuxSysDone
    /\ DOMAIN MemInfoMapping = {KMemTotal, KMemFree, KBuffers, KCached, KSwapTotal}
    /\ ret.err # "nil"

\* C4: whenever ReadSystemMemory (either variant) returns an error, the
\* SystemMemoryInfo returned with it is the zero structure.
C4_ErrorReturnsZeroInfo ==
    (fpc = "done" /\ fn \in {"LinuxReadSystemMemory", "DarwinReadSystemMemory"}
       /\ ret.err # "nil")
    => ret.info = ZeroInfo

\* (a + b + c) * k computed exactly and reduced to 64 bits
ScaledSum64(a, b, c, k) ==
    Low64(MulC(AddExact(AddExact(a, b), c), k, 1, 0))

\* C5: with the four required fields present, total = MemTotal*1024,
\* free = MemFree*1024, available = MemAvailable*1024 when MemAvailable is
\* present and (MemFree + Buffers + Cached)*1024 otherwise, an absent Buffers
\* or Cached counting 0; the values are uint64, so each equation is between
\* 64-bit values (the exact product when it is below 2^64).
C5_LinuxFields ==
    (LinuxSysDone /\ \A k \in RequiredKeys : Has(MemInfoMapping, k)) =>
        LET m == MemInfoMapping
        IN  /\ ret.err = "nil"
            /\ ret.info.TotalMemory = ScaledSum64(m[KMemTotal], Zero64, Zero64, 1024)
            /\ ret.info.FreeMemory = ScaledSum64(m[KMemFree], Zero64, Zero64, 1024)
            /\ FitsU64(MulExact(m[KMemTotal], 1024)) =>
                  MulExact(m[KMemTotal], 1024) = Pad(ret.info.TotalMemory, 6)
            /\ ret.info.AvailableMemory =
                  IF Has(m, KMemAvailable)
                  THEN ScaledSum64(m[KMemAvailable], Zero64, Zero64, 1024)
                  ELSE ScaledSum64(m[KMemFree], Get(m, KBuffers), Get(m, KCached), 1024)
            /\ (~Has(m, KMemAvailable) /\ ~Has(m, KBuffers) /\ ~Has(m, KCached)) =>
                  ret.info.AvailableMemory = ret.info.FreeMemory

\* C5 witness: the fallback ran with Buffers and Cached both present and not zero
C5_Witness ==
    /\ LinuxSysDone /\ ret.err = "nil"
    /\ ~Has(MemInfoMapping, KMemAvailable)
    /\ Has(MemInfoMapping, KBuffers) /\ MemInfoMapping[KBuffers] # Zero64
    /\ Has(MemInfoMapping, KCached) /\ MemInfoMapping[KCached] # Zero64
    /\ MemInfoMapping[KMemFree] # Zero64

\* does the status file hold a line "VmRSS: v kB"
HasRssLine(f) == f # NoFile /\ f.rss # Absent

\* C6: when /proc/<pid>/status exists and holds a line "VmRSS: v kB",
\* ReadProcessMemory(pid) returns v*1024 and no error, whatever the working
\* directory is; it returns an error when that file cannot be opened or
\* holds no VmRSS line.
C6_ReadsAbsoluteStatusFile ==
    (fpc = "done" /\ fn = "LinuxReadProcessMemory") =>
        /\ HasRssLine(arg.abs) =>
              /\ ret.err = "nil"
              /\ ret.val = ScaledSum64(ParseUint(arg.abs.rss).val, Zero64, Zero64, 1024)
        /\ ~HasRssLine(arg.abs) => ret.err # "nil"

DarwinSysDone == fpc = "done" /\ fn = "DarwinReadSystemMemory"

\* the mapping ReadSystemMemory builds from the report of vm_stat
VmStatMapping == parseVmStat(arg.vmstat.out, EmptyMap)

\* the cache figure the Darwin reader adds: file-backed pages, else cache, else 0
ExtraPages(m) ==
    IF Has(m, KFileBacked) THEN m[KFileBacked]
    ELSE IF Has(m, KCache) THEN m[KCache]
    ELSE Zero64

\* x <= y for limb sequences of any lengths
LeAny(x, y) ==
    LET n == IF Len(x) > Len(y) THEN Len(x) ELSE Len(y)
    IN  Le(Pad(x, n), Pad(y, n))

\* a numeric token of the swap report: is it one, and 100 times its value in bytes
IsSizeToken(tok) ==
    LET f == ParseFloat(SizeSuffix(tok)[2])
    IN  f.kind = "num" /\ ~f.neg /\ f.exp10 >= -2
TokenBytes100(tok) ==
    LET sfx == SizeSuffix(tok)
        f   == ParseFloat(sfx[2])
    IN  MulPow(MulPow(f.mant, 1024, sfx[1]), 10, f.exp10 + 2)

\* the source figures do not exceed the source totals (exact arithmetic)
LinuxSelfConsistent ==
    LET m == MemInfoMapping
    IN  /\ Le(m[KMemFree], m[KMemTotal])
        /\ IF Has(m, KMemAvailable) THEN Le(m[KMemAvailable], m[KMemTotal])
           ELSE LeAny(AddExact(AddExact(m[KMemFree], Get(m, KBuffers)), Get(m, KCached)),
                      m[KMemTotal])
        /\ Le(m[KSwapFree], m[KSwapTotal])

DarwinSelfConsistent ==
    LET m     == VmStatMapping
        total == ParseUint(TrimSpace(arg.memsize.out)).val
        pages == AddExact(AddExact(AddExact(Get(m, KFree), Get(m, KInactive)),
                                   Get(m, KSpeculative)), ExtraPages(m))
    IN  /\ LeAny(MulC(pages, 4096, 1, 0), total)
        /\ arg.swapToks # NoToks
        /\ IsSizeToken(arg.swapToks[1]) /\ IsSizeToken(arg.swapToks[2])
        /\ LeAny(TokenBytes100(arg.swapToks[2]), TokenBytes100(arg.swapToks[1]))

InfoOrdered(info) ==
    /\ Le(info.AvailableMemory, info.TotalMemory)
    /\ Le(info.FreeMemory, info.TotalMemory)
    /\ Le(info.SwapFree, info.SwapTotal)

\* C7: every SystemMemoryInfo returned without error by either reader has
\* available <= total, free <= total and swapFree <= swapTotal whenever the
\* source's free, available/cache and swap-free figures do not exceed the
\* source's totals.
C7_InfoOrderedWhenConsistent ==
    /\ (LinuxSysDone /\ ret.err = "nil" /\ LinuxSelfConsistent) => InfoOrdered(ret.info)
    /\ (DarwinSysDone /\ ret.err = "nil" /\ DarwinSelfConsistent) => InfoOrdered(ret.info)

\* the byte counts of the source totals are below 2^64
LinuxTotalsFit ==
    /\ FitsU64(MulExact(MemInfoMapping[KMemTotal], 1024))
    /\ FitsU64(MulExact(MemInfoMapping[KSwapTotal], 1024))
DarwinTotalsFit ==
    FitsU64(DivPow(TokenBytes100(arg.swapToks[1]), 10, 2))

\* C7, where it holds: as C7 for sources whose totals are below 2^64 bytes
C7_OrderedWhenTotalsFit ==
    /\ (LinuxSysDone /\ ret.err = "nil" /\ LinuxSelfConsistent /\ LinuxTotalsFit)
          => InfoOrdered(ret.info)
    /\ (DarwinSysDone /\ ret.err = "nil" /\ DarwinSelfConsistent /\ DarwinTotalsFit)
          => InfoOrdered(ret.info)

\* the Darwin call got as far as the page statistics and the swap report
DarwinReachedSwap ==
    /\ DarwinSysDone
    /\ ~arg.memsize.err /\ ParseUint(TrimSpace(arg.memsize.out)).err = "nil"
    /\ ~arg.vmstat.err /\ ~arg.swap.err

\* C8: for every page-statistics mapping the Darwin reader computes
\* free = (free + inactive)*4096 and
\* available = (free + inactive + speculative + extra)*4096, extra being the
\* file-backed pages if that key exists, else cache if that key exists, else
\* 0 (64-bit values, as in C5); a key missing from the mapping counts 0 and
\* is never an error: with a well-formed swap report the call succeeds
\* whatever keys the mapping holds.
C8_DarwinPages ==
    (DarwinReachedSwap /\ arg.swap = GoodSwap) =>
        LET m == VmStatMapping
        IN  /\ ret.err = "nil"
            /\ ret.info.FreeMemory =
                  ScaledSum64(Get(m, KFree), Get(m, KInactive), Zero64, 4096)
            /\ ret.info.AvailableMemory =
                  ScaledSum64(AddExact(Get(m, KFree), Get(m, KInactive)),
                              Get(m, KSpeculative), ExtraPages(m), 4096)

\* C8 witness: file-backed pages and cache both present and different, free missing
C8_Witness ==
    /\ DarwinReachedSwap /\ arg.swap = GoodSwap /\ ret.err = "nil"
    /\ Has(VmStatMapping, KFileBacked) /\ Has(VmStatMapping, KCache)
    /\ VmStatMapping[KFileBacked] # VmStatMapping[KCache]
    /\ ~Has(VmStatMapping, KFree)
    /\ Has(VmStatMapping, KSpeculative) /\ VmStatMapping[KSpeculative] # Zero64

ParseFails(tok) == \A r \in parseMemSize(tok) : r.err # "nil"

\* C9: the swap report is split at white space; SwapTotal is the token at
\* index 2 and SwapFree the token at index 8, each parsed by parseMemSize;
\* with fewer than 9 tokens the call fails; when the token at index 2 does
\* not parse the call fails naming TotalSwap, when the token at index 8 does
\* not parse it fails naming FreeSwap.
C9_SwapTokens ==
    DarwinReachedSwap =>
        LET parts == Fields(arg.swap.out)
        IN  IF Len(parts) < 9 THEN ret.err = "SwapInfo"
            ELSE /\ arg.swapToks = <<parts[3], parts[9]>>
                 /\ IF ParseFails(arg.swapToks[1]) THEN ret.err = "TotalSwap"
                    ELSE IF ParseFails(arg.swapToks[2]) THEN ret.err = "FreeSwap"
                    ELSE /\ ret.err = "nil"
                         /\ \E r \in parseMemSize(arg.swapToks[1]) :
                               r.val = ret.info.SwapTotal
                         /\ \E r \in parseMemSize(arg.swapToks[2]) :
                               r.val = ret.info.SwapFree

\* C9 witness: nine tokens or more, the total parses, the free figure does not
C9_Witness ==
    /\ DarwinReachedSwap /\ arg.swapToks # NoToks
    /\ ~ParseFails(arg.swapToks[1]) /\ ParseFails(arg.swapToks[2])
    /\ ret.err = "FreeSwap"

\* hundredths * 1024^k, exactly
TokenProduct100(a) == MulPow(MulC(<<0, 0>>, 1, 1, a.hundredths), 1024, a.k)

ParseDone == fpc = "done" /\ fn = "parseMemSize"

\* C10 as stated: parseMemSize returns n * 1024^k for a non-negative decimal
\* n with suffix number k, and an error and 0 for every token whose numeric
\* portion is not a valid decimal number.
C10_ExactProduct ==
    ParseDone =>
        /\ arg.class = "decimal" =>
              /\ ret.err = "nil"
              /\ MulC(Pad(ret.val, 8), 100, 1, 0) = Pad(TokenProduct100(arg), 9)
        /\ arg.class \in {"garbage", "special"} => (ret.err # "nil" /\ ret.val = Zero64)

\* What parseMemSize does: it returns floor(n * 1024^k), the float64 product
\* truncated toward zero, for a non-negative decimal n of at most two
\* fraction digits with n * 1024^k below 2^48; it returns an error and 0 for
\* every token whose numeric portion strconv.ParseFloat rejects; the numeric
\* portions Inf, Infinity and NaN are not decimal numbers and are not
\* rejected: no error is returned for them.
C10_TruncatedProduct ==
    ParseDone =>
        /\ arg.class = "decimal" =>
              /\ ret.err = "nil"
              /\ Pad(ret.val, 8) = Pad(DivPow(TokenProduct100(arg), 10, 2), 8)
        /\ arg.class = "garbage" => (ret.err # "nil" /\ ret.val = Zero64)
        /\ arg.class = "special" => ret.err = "nil"

\* a token with a suffix whose product is no whole number ("0.01K") was parsed
TruncatedToken ==
    /\ ParseDone /\ arg.class = "decimal" /\ arg.k >= 1 /\ ret.err = "nil"
    /\ ret.val # Zero64
    /\ MulC(Pad(ret.val, 8), 100, 1, 0) # Pad(TokenProduct100(arg), 9)

ListDone == fpc = "done" /\ fn = "LinuxGetProcessList"

\* a name made of decimal digits only that does not denote 0
IsPositiveDigitName(name) ==
    /\ name # <<>>
    /\ \A i \in 1..Len(name) : IsAsciiDigit(name[i])
    /\ \E i \in 1..Len(name) : name[i] # "0"

\* does the number a digit name denotes fit int (the names are of at most 9
\* digits or of 20)
FitsInt(name) == Len(name) < 19

\* the directories of a listing with a positive digit name, as positions
PidPositions(entries) ==
    { i \in 1..Len(entries) : entries[i].isDir /\ IsPositiveDigitName(entries[i].name) }

RECURSIVE PidsAt(_, _, _)
\* the numbers denoted by the names at the positions P from i on, in order
PidsAt(entries, P, i) ==
    IF i > Len(entries) THEN <<>>
    ELSE (IF i \in P THEN <<SmallNat(entries[i].name, 0)>> ELSE <<>>)
         \o PidsAt(entries, P, i + 1)

\* C11 as stated: GetProcessList returns exactly the PIDs of the directory
\* entries whose names consist only of decimal digits and denote a positive
\* integer, each such name contributing once; it fails only when the root
\* cannot be listed.
C11_EveryPositiveDigitName ==
    ListDone =>
        /\ (ret.err # "nil") <=> arg.err
        /\ ~arg.err => Len(ret.pids) = Cardinality(PidPositions(arg.entries))

\* C11 amended: GetProcessList returns, in listing order and once per entry,
\* exactly the PIDs of the directory entries whose names consist only of
\* decimal digits and denote a positive integer in the range of int; a digit
\* name beyond that range is skipped like a non-digit name, a non-directory
\* and the name 0; skipped entries never cause an error, and the call fails
\* only when the root cannot be listed.
C11_PidDirectoriesListed ==
    ListDone =>
        /\ (ret.err # "nil") <=> arg.err
        /\ ret.pids = PidsAt(arg.entries,
                             { i \in PidPositions(arg.entries) : FitsInt(arg.entries[i].name) },
                             1)

\* C11 witness: a listing holding a name beyond int, the name 0 and a PID
\* directory, of which the PID alone is returned
C11_Witness ==
    /\ ListDone /\ ret.err = "nil" /\ Len(ret.pids) = 1
    /\ \E i \in 1..Len(arg.entries) : arg.entries[i] = DirEntry(Str1e19, TRUE)
    /\ \E i \in 1..Len(arg.entries) : arg.entries[i] = DirEntry(Itoa(0), TRUE)

\* the operating systems main has a reader for
Supported == {"linux", "darwin"}

\* C12: at startup the one reader is selected from the operating system
\* identifier (linux: the Linux reader, darwin: the Darwin reader) and it is
\* the reader of every later poll: it never changes, and what a poll's
\* ReadSystemMemory and GetProcessList return is a result of that variant; for
\* any other identifier the program prints the unsupported-platform message
\* and terminates with no reader, no tick received, no poll and no dashboard.
C12_OneReaderSelected ==
    /\ []((goos \in Supported /\ pc # "start") => reader = goos)
    /\ [][reader # "none" => reader' = reader]_vars
    /\ [][(pc = "readSys" /\ pc' # pc) =>
            [info |-> sysInfo', err |-> err'] \in
               (IF goos = "linux" THEN { LinuxReadSystemMemory(f) : f \in MainMemInfoFiles }
                ELSE UNION { DarwinReadSystemMemory(c) : c \in MainDarwinCmds })]_vars
    /\ [][(pc = "getList" /\ pc' # pc) =>
            [pids |-> pids', err |-> err'] \in
               (IF goos = "linux" THEN { LinuxGetProcessList(d) : d \in ProcListings }
                ELSE { DarwinGetProcessList(c) : c \in PsListings })]_vars
    /\ [](goos \notin Supported =>
             /\ reader = "none" /\ pc \in {"start", "exited"}
             /\ pc = "exited" => printed = "unsupported"
             /\ tickC = 0 /\ sigChan = 0 /\ nTicks = 0 /\ nDash = 0 /\ nFail = 0
             /\ ~rendered.shown /\ readLog = <<>> /\ pids = <<>>)

\* C12 witness: the second poll of a run on darwin has enumerated processes
C12_Witness == goos = "darwin" /\ reader = "darwin" /\ nTicks = 2 /\ pc = "scan"

\* C13: when the platform is unsupported, the program exits with a non-zero
\* exit status after printing its message.
C13_UnsupportedExitsNonZero ==
    (pc = "exited" /\ goos \notin Supported) => (printed = "unsupported" /\ exitCode # 0)

\* C14: once SIGINT or SIGTERM has been delivered, the polling loop eventually
\* terminates (every operation of a poll in progress returns, the select is
\* fair); the loop terminates only at its select, with the signal received,
\* never in the middle of a poll.
C14_SignalEndsLoop ==
    /\ (sigChan = 1) ~> (pc = "exited")
    /\ [][(pc' = "exited" /\ pc \notin {"exited", "start"}) =>
             (pc = "select" /\ sigChan = 1 /\ printed' = "exiting")]_vars

\* C14 witness: the loop has ended on a signal after polls were made
C14_Witness == pc = "exited" /\ printed = "exiting" /\ nTicks = MaxTicks /\ nDash >= 1

\* C15: the number of processes listed in a rendered dashboard never exceeds
\* the configured top-N count, config.TopProcesses (10 in main).
C15_AtMostTopProcesses ==
    rendered.shown => Len(rendered.processes) <= TopProcesses

\* C16: every ProcessInfo produced in a poll, with either reader, has a
\* strictly positive PID: no sample with PID 0 or a negative PID reaches the
\* dashboard, whatever the process listing holds.
C16_PositivePids ==
    /\ \A i \in 1..Len(processes) : processes[i].PID > 0
    /\ \A i \in 1..Len(rendered.processes) : rendered.processes[i].PID > 0

\* the positions of main inside a poll
PollPcs == {"readSys", "getList", "scan"}

\* the moves of main from one position to the next
PollOrder ==
    { <<"start", "select">>, <<"start", "exited">>, <<"select", "readSys">>,
      <<"select", "exited">>, <<"readSys", "getList">>, <<"readSys", "select">>,
      <<"getList", "scan">>, <<"getList", "select">>, <<"scan", "select">> }

\* C17: within one tick the poll runs ReadSystemMemory, then GetProcessList,
\* then ReadProcessMemory for each enumerated PID in turn, then
\* DisplayDashboard, each after the one before has returned; ReadSystemMemory
\* and GetProcessList run at most once per tick and ReadProcessMemory at most
\* once per position of the PID list, so a failed operation is never retried
\* (every failure ends its tick); a poll starts with fresh variables and the
\* dashboard shows the values of its own tick only.
C17_PollInOrderOncePerTick ==
    /\ [][pc' # pc =>
            /\ <<pc, pc'>> \in PollOrder
            /\ (pc = "readSys" /\ pc' = "getList") => err' = "nil"
            /\ (pc \in {"readSys", "getList"} /\ pc' = "select") =>
                  (err' # "nil" /\ nFail' = nFail + 1 /\ nDash' = nDash /\ readLog' = <<>>)
            /\ (pc = "getList" /\ pc' = "scan") => (err' = "nil" /\ sysInfo' = sysInfo)
            /\ (pc = "scan" /\ pc' = "select") =>
                  /\ idx = Len(pids) + 1 /\ Len(readLog) = Len(pids)
                  /\ nDash' = nDash + 1 /\ nFail' = nFail
                  /\ rendered' = [shown |-> TRUE, stats |-> sysInfo,
                                  processes |-> processes]]_vars
    /\ [][readLog' # readLog =>
            \/ pc = "select" /\ pc' = "readSys" /\ readLog' = <<>>
            \/ /\ pc = "scan" /\ pc' = "scan" /\ idx <= Len(pids)
               /\ idx' = idx + 1 /\ Len(readLog') = idx /\ pids' = pids
               /\ SubSeq(readLog', 1, idx - 1) = readLog]_vars
    /\ [](nDash + nFail + (IF pc \in PollPcs THEN 1 ELSE 0) = nTicks)
    /\ [](pc = "readSys" =>
            /\ sysInfo = ZeroInfo /\ err = "nil" /\ pids = <<>> /\ idx = 1
            /\ processes = <<>> /\ readLog = <<>> /\ ~rendered.shown)
    /\ [](pc = "getList" => (pids = <<>> /\ processes = <<>> /\ readLog = <<>>))

\* C17 witness: the second tick has read two processes and shown its dashboard
C17_Witness ==
    /\ nTicks = 2 /\ nDash = 2 /\ rendered.shown /\ pc = "select"
    /\ Len(readLog) >= 2 /\ Len(rendered.processes) >= 1

\* C18: for every SystemMemoryInfo a reader returns without error and the
\* poll hands to DisplayDashboard, the subtractions of FormatSystemStats,
\* TotalMemory - AvailableMemory and SwapTotal - SwapFree, do not wrap:
\* AvailableMemory <= TotalMemory and SwapFree <= SwapTotal at rendering.
C18_NoWrapAtRendering ==
    rendered.shown =>
        /\ Le(rendered.stats.AvailableMemory, rendered.stats.TotalMemory)
        /\ Le(rendered.stats.SwapFree, rendered.stats.SwapTotal)

=============================================================================
